---- MODULE Spec2Model ----
(***************************************************************************)
(* Client node of the simulated packet-switched network: topology graph    *)
(* (network/graph.rs), session/fragment store (database/mod.rs), packet    *)
(* codec (packet/utils.rs) and the routing engine (network/router.rs).     *)
(***************************************************************************)
EXTENDS Integers, Sequences, FiniteSets, TLC

VARIABLES graph, session_id, outbound_packet_channels, database,
          pc, ev, res, out, codec_in, closed_channels

vars == <<graph, session_id, outbound_packet_channels, database,
          pc, ev, res, out, codec_in, closed_channels>>

(***************************************************************************)
(* Bounds of the model.                                                    *)
(***************************************************************************)
\* Session ids are allocated up to this value (the counter is a u64).
MaxSession == 1
\* A fragment group counts at most this many saves (the counter is a u64).
MaxRecv == 3
\* Bytes per fragment; the transport's capacity scaled down.
FragCap == 5
\* Longest path trace of a flood response fed to the graph alone.
MaxTrace == 4
\* Longest message content fed to the codec alone.
MaxContent == 6
\* Highest node id offered as a neighbour when the service is constructed.
MaxNeighbor == 6

(***************************************************************************)
(* Generic helpers.                                                        *)
(***************************************************************************)
Range(s) == {s[i] : i \in DOMAIN s}

EmptyMap == [x \in {} |-> {}]

Put(f, k, v) == [x \in (DOMAIN f) \cup {k} |-> IF x = k THEN v ELSE f[x]]

\* All orders in which the elements of a finite set can be iterated.
Perms(S) == {p \in [1..Cardinality(S) -> S] : Range(p) = S}

Min(a, b) == IF a < b THEN a ELSE b

(***************************************************************************)
(* Node identities.                                                        *)
(***************************************************************************)
node_id == 1

NodeIds == {1, 2, 3}

V(id, kind) == <<id, kind>>

\* closed_channels holds the outbound channels whose receiving end is gone
\* (a send on them fails): neighbours by node id, the supervisor's event
\* channel under this key.
sc_channel == 0

(***************************************************************************)
(* Topology graph: a petgraph DiGraphMap, nodes in insertion order.        *)
(***************************************************************************)
NetGraph_new == [nodes |-> <<>>, edges |-> {}]

contains_node(g, v) == v \in Range(g.nodes)

\* save_vertices_to_graph without the contains_node test.
save_vertices_to_graph_unchecked(g, v) == [g EXCEPT !.nodes = Append(@, v)]

save_vertices_to_graph(g, v) ==
    IF ~contains_node(g, v) THEN [g EXCEPT !.nodes = Append(@, v)] ELSE g

\* DiGraphMap::add_edge inserts missing endpoints before the edge.
add_edge(g, a, b) ==
    LET g1 == save_vertices_to_graph(save_vertices_to_graph(g, a), b)
    IN  [g1 EXCEPT !.edges = @ \cup {<<a, b>>}]

\* insert_edge_between_nodes adding the forward edge only.
insert_edge_one_way(g, before, after) ==
    IF <<before, after>> \notin g.edges THEN add_edge(g, before, after) ELSE g

insert_edge_between_nodes(g, before, after) ==
    LET g1 == IF <<before, after>> \notin g.edges
              THEN add_edge(g, before, after) ELSE g
    IN  IF <<after, before>> \notin g1.edges
        THEN add_edge(g1, after, before) ELSE g1

neighbors(g, v) == {w \in Range(g.nodes) : <<v, w>> \in g.edges}

\* The KnownNetworkGraph event: every vertex with the ids of its neighbours.
notify_sc_of_known_topology(g) ==
    [ch |-> "sc", event |-> "KnownNetworkGraph", source |-> node_id,
     graph |-> {<<v[1], v[2], {w[1] : w \in neighbors(g, v)}>> : v \in Range(g.nodes)}]

\* The loop of add_route skipping a pair that ends at a Client or Server
\* (`continue`) instead of returning.
RECURSIVE add_route_walk_skipping(_, _, _)
add_route_walk_skipping(g, route, i) ==
    IF i > Len(route) - 1 THEN [graph |-> g, finished |-> TRUE]
    ELSE IF route[i + 1][2] \in {"Client", "Server"}
         THEN add_route_walk_skipping(g, route, i + 1)
         ELSE add_route_walk_skipping(
                  insert_edge_between_nodes(
                      save_vertices_to_graph(save_vertices_to_graph(g, route[i]),
                                             route[i + 1]),
                      route[i], route[i + 1]),
                  route, i + 1)

\* The loop of add_route from pair i (1-based) on: the graph after the walk
\* and whether the walk ran to its end (FALSE: the early return).
RECURSIVE add_route_walk(_, _, _)
add_route_walk(g, route, i) ==
    IF i > Len(route) - 1 THEN [graph |-> g, finished |-> TRUE]
    ELSE LET before == route[i]
             after  == route[i + 1]
         IN  IF after[2] \in {"Client", "Server"}
             THEN [graph |-> g, finished |-> FALSE]
             ELSE add_route_walk(
                      insert_edge_between_nodes(
                          save_vertices_to_graph(save_vertices_to_graph(g, before), after),
                          before, after),
                      route, i + 1)

\* add_route: [graph, out, res].  An empty path makes `route.len() - 1`
\* underflow: the overflow check panics, and without it route[0] is indexed.
add_route(g, route) ==
    IF Len(route) = 0 THEN [graph |-> g, out |-> <<>>, res |-> "panic"]
    ELSE LET w == add_route_walk(g, route, 1)
         IN  IF ~w.finished THEN [graph |-> w.graph, out |-> <<>>, res |-> "ok"]
             ELSE IF sc_channel \in closed_channels
             THEN [graph |-> w.graph, out |-> <<>>, res |-> "err"]
             ELSE [graph |-> w.graph,
                   out |-> <<notify_sc_of_known_topology(w.graph)>>, res |-> "ok"]

IsEdgeNode(v) == v[2] # "Drone"

\* NetGraph::reset: graph.clear().
reset(g) == NetGraph_new

IsServer(v) == v[2] = "Server"

\* get_edge_nodes keeping the servers only.
get_edge_nodes_servers_only(g) == SelectSeq(g.nodes, IsServer)

\* get_edge_nodes: the non-drone vertices in node order; <<>> stands for None.
get_edge_nodes(g) == SelectSeq(g.nodes, IsEdgeNode)

\* petgraph's all_simple_paths(graph, from, to, 0, None): the paths yielded
\* with `visited` as the current prefix.
RECURSIVE all_simple_paths(_, _, _, _)
all_simple_paths(g, visited, to, max_length) ==
    LET children == neighbors(g, visited[Len(visited)])
        hit == IF to \in children THEN {Append(visited, to)} ELSE {}
    IN  IF Len(visited) < max_length
        THEN hit \cup UNION {all_simple_paths(g, Append(visited, c), to, max_length) :
                               c \in {c \in children : c # to /\ c \notin Range(visited)}}
        ELSE hit

compute_routes(g, from, to) ==
    {[i \in DOMAIN p |-> p[i][1]] :
        p \in all_simple_paths(g, <<from>>, to, Len(g.nodes) - 1)}

\* get_node_type: the kind of the first vertex carrying the id, or "none".
get_node_type(g, id) ==
    LET hits == {i \in DOMAIN g.nodes : g.nodes[i][1] = id}
    IN  IF hits = {} THEN "none"
        ELSE g.nodes[CHOOSE i \in hits : \A j \in hits : i <= j][2]

\* get_route_to_node: the routes get_random_route draws from; the empty set
\* when the destination is unknown or unreachable.
get_route_to_node(g, destination_node) ==
    IF get_node_type(g, destination_node) = "none" THEN {}
    ELSE compute_routes(g, V(node_id, "Client"),
                        V(destination_node, get_node_type(g, destination_node)))

(***************************************************************************)
(* Packet codec.  A message serialises to bytes: a start byte, the three   *)
(* header fields, the content bytes, an end byte.                          *)
(***************************************************************************)
SOM == 10
EOM == 11
ContentBytes == {7, 8}

Message(source, destination, session, content) ==
    [source |-> source, destination |-> destination,
     session_id |-> session, content |-> content]

stringify(m) ==
    <<SOM, m.source, m.destination, m.session_id>> \o m.content \o <<EOM>>

\* Message::from_string: [ok, message]; ok is FALSE for text that is no message.
from_string(s) ==
    IF /\ Len(s) >= 5
       /\ s[1] = SOM
       /\ s[Len(s)] = EOM
       /\ \A i \in 5..(Len(s) - 1) : s[i] \in ContentBytes
    THEN [ok |-> TRUE,
          message |-> Message(s[2], s[3], s[4], SubSeq(s, 5, Len(s) - 1))]
    ELSE [ok |-> FALSE, message |-> Message(0, 0, 0, <<>>)]

\* NaiveAssembler::disassemble: ceil(len / capacity) fragments, at least one.
n_fragments(bytes) ==
    IF Len(bytes) = 0 THEN 1 ELSE (Len(bytes) + FragCap - 1) \div FragCap

disassemble(bytes) ==
    [i \in 1..n_fragments(bytes) |->
        [fragment_index |-> i - 1,
         total_n_fragments |-> n_fragments(bytes),
         data |-> SubSeq(bytes, (i - 1) * FragCap + 1, Min(i * FragCap, Len(bytes)))]]

\* NaiveAssembler::reassemble: the payloads joined in the order given.
RECURSIVE reassemble(_)
reassemble(fragments) ==
    IF fragments = <<>> THEN <<>>
    ELSE Head(fragments).data \o reassemble(Tail(fragments))

SourceRoutingHeader(hops, hop_index) == [hops |-> hops, hop_index |-> hop_index]

new_fragment(routing_header, session, fragment) ==
    [pack_type |-> "MsgFragment", routing_header |-> routing_header,
     session_id |-> session, body |-> fragment]

message_to_packets(message, routing_header) ==
    LET fragments == disassemble(stringify(message))
    IN  [i \in DOMAIN fragments |->
            new_fragment(routing_header, message.session_id, fragments[i])]

IsFragment(p) == p.pack_type = "MsgFragment"

\* packets_to_message joining the fragments last to first.
packets_to_message_reversed(packets) ==
    LET kept == SelectSeq(packets, IsFragment)
    IN  from_string(reassemble([i \in DOMAIN kept |-> kept[Len(kept) + 1 - i].body]))

\* packets_to_message: [ok, message] from the fragment packets, in the order given.
packets_to_message(packets) ==
    LET kept == SelectSeq(packets, IsFragment)
    IN  from_string(reassemble([i \in DOMAIN kept |-> kept[i].body]))

get_new_flood_request_packet(session, initiator_id) ==
    [pack_type |-> "FloodRequest",
     routing_header |-> SourceRoutingHeader(<<>>, 0),
     session_id |-> session,
     body |-> [flood_id |-> session,
               path_trace |-> <<V(initiator_id, "Client")>>,
               initiator_id |-> initiator_id]]

(***************************************************************************)
(* Session/fragment store.                                                 *)
(***************************************************************************)
Database_new ==
    [messages |-> EmptyMap, packets |-> EmptyMap,
     packets_sent_to_sc |-> {}, messages_sent_to_sc |-> {},
     messages_read |-> {}, packets_received_ack |-> {}]

PacketStore_new(total_amount_of_frags) ==
    [packets |-> EmptyMap, all_fragments_received |-> FALSE,
     total_amount_of_frags |-> total_amount_of_frags,
     received_amount_of_frags |-> 0]

MessageID(session, sender) == <<session, sender>>
PacketID(session, sender, fragment) == <<session, sender, fragment>>

save_message(db, message) ==
    [db EXCEPT !.messages =
        Put(@, MessageID(message.session_id, message.source), message)]

\* The fragment group after one more save of `packet`.
PacketStore_insert(store, packet) ==
    [store EXCEPT
        !.packets = Put(@, packet.body.fragment_index, packet),
        !.received_amount_of_frags = @ + 1,
        !.all_fragments_received =
            @ \/ (store.received_amount_of_frags + 1 = store.total_amount_of_frags)]

\* save_packet registering the group of a packet of any type.
save_packet_any_type(db, packet) ==
    IF packet.routing_header.hops = <<>> THEN [db |-> db, res |-> "panic"]
    ELSE LET key == MessageID(packet.session_id, packet.routing_header.hops[1])
             store == IF key \in DOMAIN db.packets THEN db.packets[key]
                      ELSE PacketStore_new(IF IsFragment(packet)
                                           THEN packet.body.total_n_fragments ELSE 0)
         IN  [db |-> [db EXCEPT !.packets =
                         Put(@, key, IF IsFragment(packet)
                                     THEN PacketStore_insert(store, packet) ELSE store)],
              res |-> "ok"]

\* save_packet: [db, res].  `hops[0]` panics on an empty hop list.
save_packet(db, packet) ==
    IF ~IsFragment(packet) THEN [db |-> db, res |-> "err"]
    ELSE IF packet.routing_header.hops = <<>> THEN [db |-> db, res |-> "panic"]
    ELSE LET key == MessageID(packet.session_id, packet.routing_header.hops[1])
             store == IF key \in DOMAIN db.packets THEN db.packets[key]
                      ELSE PacketStore_new(packet.body.total_n_fragments)
         IN  [db |-> [db EXCEPT !.packets = Put(@, key, PacketStore_insert(store, packet))],
              res |-> "ok"]

has_message(db, message_id) == message_id \in DOMAIN db.messages

has_session(db, session, sender) == MessageID(session, sender) \in DOMAIN db.packets

has_packet(db, packet_id) ==
    /\ has_session(db, packet_id[1], packet_id[2])
    /\ packet_id[3] \in DOMAIN db.packets[MessageID(packet_id[1], packet_id[2])].packets

get_packet(db, packet_id) ==
    db.packets[MessageID(packet_id[1], packet_id[2])].packets[packet_id[3]]

\* update_message_to_read: [db, res].
update_message_to_read(db, message_id) ==
    IF has_message(db, message_id)
    THEN [db |-> [db EXCEPT !.messages_read = @ \cup {message_id}], res |-> "ok"]
    ELSE [db |-> db, res |-> "err"]

\* update_message_sent_to_simulation_controller: [db, res].
update_message_sent_to_simulation_controller(db, message_id) ==
    IF has_message(db, message_id)
    THEN [db |-> [db EXCEPT !.messages_sent_to_sc = @ \cup {message_id}], res |-> "ok"]
    ELSE [db |-> db, res |-> "err"]

\* update_packet_sent_to_simulation_controller keeping only the id given.
update_packet_sent_to_simulation_controller_replacing(db, packet_id) ==
    IF has_session(db, packet_id[1], packet_id[2])
    THEN [db |-> [db EXCEPT !.packets_sent_to_sc = {packet_id}], res |-> "ok"]
    ELSE [db |-> db, res |-> "err"]

\* update_packet_sent_to_simulation_controller: [db, res].  Only the
\* (session, sender) group is looked up.
update_packet_sent_to_simulation_controller(db, packet_id) ==
    IF has_session(db, packet_id[1], packet_id[2])
    THEN [db |-> [db EXCEPT !.packets_sent_to_sc = @ \cup {packet_id}], res |-> "ok"]
    ELSE [db |-> db, res |-> "err"]

\* update_packet_ack_received looking up the (session, sender) group only.
update_packet_ack_received_session_only(db, packet_id) ==
    IF has_session(db, packet_id[1], packet_id[2])
    THEN [db |-> [db EXCEPT !.packets_received_ack = @ \cup {packet_id}], res |-> "ok"]
    ELSE [db |-> db, res |-> "err"]

\* update_packet_ack_received: [db, res].
update_packet_ack_received(db, packet_id) ==
    IF has_packet(db, packet_id)
    THEN [db |-> [db EXCEPT !.packets_received_ack = @ \cup {packet_id}], res |-> "ok"]
    ELSE [db |-> db, res |-> "err"]

get_amount_of_fragments_received(db, session, sender) ==
    db.packets[MessageID(session, sender)].received_amount_of_frags

stored_fragment_ids(db, session, sender) ==
    DOMAIN db.packets[MessageID(session, sender)].packets

\* get_packets_for_session walks a HashMap: `order` is the iteration order.
get_packets_for_session(db, session, sender, order) ==
    [i \in DOMAIN order |-> db.packets[MessageID(session, sender)].packets[order[i]]]

\* An Option<bool>: None, or Some(value).
None == [some |-> FALSE, value |-> FALSE]
Some(value) == [some |-> TRUE, value |-> value]

\* all_packets_successfully_sent answering true as soon as one stored
\* fragment is acknowledged.
all_packets_successfully_sent_any(db, session, sender) ==
    IF ~has_session(db, session, sender) THEN None
    ELSE Some(\E f \in stored_fragment_ids(db, session, sender) :
                 PacketID(session, sender, f) \in db.packets_received_ack)

all_packets_successfully_sent(db, session, sender) ==
    IF ~has_session(db, session, sender) THEN None
    ELSE Some(\A f \in stored_fragment_ids(db, session, sender) :
                 PacketID(session, sender, f) \in db.packets_received_ack)

\* The ids collected without the test on the message's sender.
unread_message_ids_any_sender(db, node) ==
    {id \in DOMAIN db.messages : id \notin db.messages_read}

\* The ids get_undread_message_ids_from_server collects.
unread_message_ids(db, node) ==
    {id \in DOMAIN db.messages : id \notin db.messages_read /\ id[2] # node}

(***************************************************************************)
(* Routing engine.  A handler yields the engine's fields after the event,  *)
(* the outputs in the order they were produced and the handler's result:   *)
(* "ok", "err" (logged by listen_channels) or "panic".                     *)
(***************************************************************************)
Outcome(g, sid, chs, db, o, r, cin) ==
    [graph |-> g, session_id |-> sid, channels |-> chs, database |-> db,
     out |-> o, res |-> r, codec_in |-> cin]

ToNeighbor(n, packet) == [ch |-> "neighbor", to |-> n, packet |-> packet]
PacketSent(packet) == [ch |-> "sc", event |-> "PacketSent", packet |-> packet]
MessageEvent(name, message) == [ch |-> "sc", event |-> name, message |-> message]

\* send_packet reporting to the supervisor before the neighbour send.
send_packet_report_first(chs, packet) ==
    LET hops == packet.routing_header.hops
        i == packet.routing_header.hop_index + 1
    IN  IF i > Len(hops) THEN [out |-> <<>>, res |-> "err"]
        ELSE IF hops[i] \notin chs THEN [out |-> <<>>, res |-> "err"]
        ELSE IF sc_channel \in closed_channels THEN [out |-> <<>>, res |-> "err"]
        ELSE IF hops[i] \in closed_channels
        THEN [out |-> <<PacketSent(packet)>>, res |-> "err"]
        ELSE [out |-> <<PacketSent(packet), ToNeighbor(hops[i], packet)>>, res |-> "ok"]

\* send_packet: [out, res].  Either send fails on a closed channel.
send_packet(chs, packet) ==
    LET hops == packet.routing_header.hops
        i == packet.routing_header.hop_index + 1
    IN  IF i > Len(hops) THEN [out |-> <<>>, res |-> "err"]
        ELSE IF hops[i] \notin chs THEN [out |-> <<>>, res |-> "err"]
        ELSE IF hops[i] \in closed_channels THEN [out |-> <<>>, res |-> "err"]
        ELSE IF sc_channel \in closed_channels
        THEN [out |-> <<ToNeighbor(hops[i], packet)>>, res |-> "err"]
        ELSE [out |-> <<ToNeighbor(hops[i], packet), PacketSent(packet)>>, res |-> "ok"]

\* flood_network sending to every neighbour before reporting any send.
flood_network_sends_first(sid, order) ==
    LET packet == get_new_flood_request_packet(sid, node_id)
    IN  [out |-> [i \in DOMAIN order |-> ToNeighbor(order[i], packet)]
                    \o [i \in DOMAIN order |-> PacketSent(packet)],
         res |-> "ok"]

\* flood_network going on to the next neighbour after a send that failed.
RECURSIVE flood_network_past_failures(_, _)
flood_network_past_failures(sid, order) ==
    IF order = <<>> THEN [out |-> <<>>, res |-> "ok"]
    ELSE LET packet == get_new_flood_request_packet(sid, node_id)
             rest == flood_network_past_failures(sid, Tail(order))
         IN  IF Head(order) \in closed_channels THEN [out |-> rest.out, res |-> "err"]
             ELSE IF sc_channel \in closed_channels
             THEN [out |-> <<ToNeighbor(Head(order), packet)>> \o rest.out, res |-> "err"]
             ELSE [out |-> <<ToNeighbor(Head(order), packet), PacketSent(packet)>> \o rest.out,
                   res |-> rest.res]

\* flood_network walks the neighbour HashMap: `order` is the iteration order.
\* [out, res]: the first send that fails ends the walk.
RECURSIVE flood_network(_, _)
flood_network(sid, order) ==
    IF order = <<>> THEN [out |-> <<>>, res |-> "ok"]
    ELSE LET packet == get_new_flood_request_packet(sid, node_id)
             rest == flood_network(sid, Tail(order))
         IN  IF Head(order) \in closed_channels THEN [out |-> <<>>, res |-> "err"]
             ELSE IF sc_channel \in closed_channels
             THEN [out |-> <<ToNeighbor(Head(order), packet)>>, res |-> "err"]
             ELSE [out |-> <<ToNeighbor(Head(order), packet), PacketSent(packet)>> \o rest.out,
                   res |-> rest.res]

\* The loop of send_message over packets[i..]: [db, out, res].
RECURSIVE send_message_loop(_, _, _, _, _)
send_message_loop(db, chs, packets, i, o) ==
    IF i > Len(packets) THEN [db |-> db, out |-> o, res |-> "ok"]
    ELSE LET saved == save_packet(db, packets[i])
             sent == send_packet(chs, packets[i])
         IN  IF saved.res # "ok" THEN [db |-> saved.db, out |-> o, res |-> saved.res]
             ELSE IF sent.res # "ok" THEN [db |-> saved.db, out |-> o, res |-> sent.res]
             ELSE send_message_loop(saved.db, chs, packets, i + 1, o \o sent.out)

\* The choices get_random_route has; <<>> stands for "no route".
RouteChoices(g, destination) ==
    IF get_route_to_node(g, destination) = {} THEN {<<>>}
    ELSE get_route_to_node(g, destination)

\* send_message announcing and persisting the message before it resolves the route.
send_message_route_last(g, sid, chs, db, message, hops) ==
    LET m == [message EXCEPT !.session_id = sid + 1]
        packets == message_to_packets(m, SourceRoutingHeader(hops, 1))
        start == <<MessageEvent("StartingMessageTransmission", m)>>
        loop == send_message_loop(save_message(db, m), chs, packets, 1, start)
    IN  IF hops = <<>> THEN Outcome(g, sid + 1, chs, save_message(db, m), start, "err", <<>>)
        ELSE Outcome(g, sid + 1, chs, loop.db, loop.out, loop.res, <<>>)

\* send_message with the route `hops` drawn by get_random_route.
send_message(g, sid, chs, db, message, hops) ==
    LET m == [message EXCEPT !.session_id = sid + 1]
        packets == message_to_packets(m, SourceRoutingHeader(hops, 1))
        loop == send_message_loop(save_message(db, m), chs, packets, 1,
                    <<MessageEvent("StartingMessageTransmission", m)>>)
    IN  IF hops = <<>> THEN Outcome(g, sid + 1, chs, db, <<>>, "err", <<>>)
        ELSE IF sc_channel \in closed_channels
        THEN Outcome(g, sid + 1, chs, db, <<>>, "err", <<>>)
        ELSE Outcome(g, sid + 1, chs, loop.db, loop.out, loop.res, <<>>)

\* process_fragment building the message on every delivery from the
\* total-th on (received >= total instead of received == total).
process_fragment_at_least(g, sid, chs, db, packet, order) ==
    LET saved == save_packet(db, packet)
        session == packet.session_id
        sender == packet.routing_header.hops[1]
        ids == stored_fragment_ids(saved.db, session, sender)
        walked == IF order # <<>> THEN order
                  ELSE CHOOSE p \in Perms(ids) :
                          \A i, j \in DOMAIN p : i < j => p[i] < p[j]
        packets == get_packets_for_session(saved.db, session, sender, walked)
        built == packets_to_message(packets)
    IN  IF saved.res # "ok" THEN Outcome(g, sid, chs, saved.db, <<>>, saved.res, <<>>)
        ELSE IF get_amount_of_fragments_received(saved.db, session, sender)
                    < packet.body.total_n_fragments
        THEN Outcome(g, sid, chs, saved.db, <<>>, "ok", <<>>)
        ELSE IF ~built.ok THEN Outcome(g, sid, chs, saved.db, <<>>, "err", packets)
        ELSE Outcome(g, sid, chs, save_message(saved.db, built.message),
                     <<MessageEvent("MessageReceived", built.message)>>, "ok", packets)

\* process_fragment; `order` is the order get_packets_for_session yields.
process_fragment(g, sid, chs, db, packet, order) ==
    LET saved == save_packet(db, packet)
        session == packet.session_id
        sender == packet.routing_header.hops[1]
        packets == get_packets_for_session(saved.db, session, sender, order)
        built == packets_to_message(packets)
    IN  IF saved.res # "ok" THEN Outcome(g, sid, chs, saved.db, <<>>, saved.res, <<>>)
        ELSE IF get_amount_of_fragments_received(saved.db, session, sender)
                    # packet.body.total_n_fragments
        THEN Outcome(g, sid, chs, saved.db, <<>>, "ok", <<>>)
        ELSE IF ~built.ok THEN Outcome(g, sid, chs, saved.db, <<>>, "err", packets)
        ELSE IF sc_channel \in closed_channels
        THEN Outcome(g, sid, chs, save_message(saved.db, built.message), <<>>, "err", packets)
        ELSE Outcome(g, sid, chs, save_message(saved.db, built.message),
                     <<MessageEvent("MessageReceived", built.message)>>, "ok", packets)

\* The orders process_fragment can be handed the stored packets in.
FragmentOrders(db, packet) ==
    LET saved == save_packet(db, packet)
    IN  IF saved.res # "ok" THEN {<<>>}
        ELSE IF get_amount_of_fragments_received(saved.db, packet.session_id,
                    packet.routing_header.hops[1]) # packet.body.total_n_fragments
        THEN {<<>>}
        ELSE Perms(stored_fragment_ids(saved.db, packet.session_id,
                                       packet.routing_header.hops[1]))

process_ack(g, sid, chs, db, packet) ==
    LET packet_id == PacketID(packet.session_id, node_id, packet.body.fragment_index)
        marked == update_packet_ack_received(db, packet_id)
        message_id == MessageID(packet.session_id, node_id)
        fully_sent == all_packets_successfully_sent(marked.db, packet_id[1], packet_id[2])
    IN  IF marked.res # "ok" THEN Outcome(g, sid, chs, db, <<>>, "err", <<>>)
        ELSE IF ~fully_sent.some THEN Outcome(g, sid, chs, marked.db, <<>>, "err", <<>>)
        ELSE IF ~fully_sent.value
        THEN Outcome(g, sid, chs, marked.db, <<>>, "ok", <<>>)
        ELSE IF ~has_message(marked.db, message_id)
        THEN Outcome(g, sid, chs, marked.db, <<>>, "err", <<>>)
        ELSE IF sc_channel \in closed_channels
        THEN Outcome(g, sid, chs, marked.db, <<>>, "err", <<>>)
        ELSE Outcome(g, sid, chs, marked.db,
                     <<MessageEvent("MessageSentSuccessfully", marked.db.messages[message_id])>>,
                     "ok", <<>>)

\* The resend branch of process_nack: the outputs and result after `flood`.
nack_resend(chs, packet, flood, hops) ==
    LET sent == send_packet(chs, [packet EXCEPT !.routing_header.hops = hops])
    IN  IF flood.res # "ok" THEN [out |-> flood.out, res |-> "err"]
        ELSE IF packet.routing_header.hops = <<>> \/ hops = <<>>
        THEN [out |-> flood.out, res |-> "err"]
        ELSE [out |-> flood.out \o sent.out, res |-> sent.res]

\* process_nack answering DestinationIsDrone the way it answers Dropped.
process_nack_drone_as_dropped(g, sid, chs, db, nack, order, hops) ==
    LET packet_id == PacketID(nack.session_id, node_id, nack.body.fragment_index)
        packet == get_packet(db, packet_id)
        old == packet.routing_header.hops
        drawn == IF old = <<>> THEN <<>>
                 ELSE CHOOSE h \in RouteChoices(g, old[Len(old)]) : TRUE
        r == CASE nack.body.nack_type \in {"ErrorInRouting", "UnexpectedRecipient"} ->
                    nack_resend(chs, packet, flood_network(sid, order), hops)
               [] nack.body.nack_type = "Dropped" ->
                    nack_resend(chs, packet, [out |-> <<>>, res |-> "ok"], hops)
               [] OTHER -> nack_resend(chs, packet, [out |-> <<>>, res |-> "ok"], drawn)
    IN  IF ~has_packet(db, packet_id) THEN Outcome(g, sid, chs, db, <<>>, "err", <<>>)
        ELSE Outcome(g, sid, chs, db, r.out, r.res, <<>>)

\* process_nack; `order` is flood_network's iteration order and `hops` the
\* route drawn for the stored packet's destination.
process_nack(g, sid, chs, db, nack, order, hops) ==
    LET packet_id == PacketID(nack.session_id, node_id, nack.body.fragment_index)
        packet == get_packet(db, packet_id)
        r == CASE nack.body.nack_type \in {"ErrorInRouting", "UnexpectedRecipient"} ->
                    nack_resend(chs, packet, flood_network(sid, order), hops)
               [] nack.body.nack_type = "Dropped" ->
                    nack_resend(chs, packet, [out |-> <<>>, res |-> "ok"], hops)
               [] OTHER -> [out |-> <<>>, res |-> "ok"]
    IN  IF ~has_packet(db, packet_id) THEN Outcome(g, sid, chs, db, <<>>, "err", <<>>)
        ELSE Outcome(g, sid, chs, db, r.out, r.res, <<>>)

\* The routes process_nack can draw for a nack; <<>> when none is drawn.
NackRoutes(g, db, nack) ==
    LET packet_id == PacketID(nack.session_id, node_id, nack.body.fragment_index)
        hops == get_packet(db, packet_id).routing_header.hops
    IN  IF ~has_packet(db, packet_id) \/ nack.body.nack_type = "DestinationIsDrone"
        THEN {<<>>}
        ELSE IF hops = <<>> THEN {<<>>}
        ELSE RouteChoices(g, hops[Len(hops)])

\* The orders process_nack can flood the neighbours in; <<>> when it does not flood.
NackFloodOrders(chs, db, nack) ==
    LET packet_id == PacketID(nack.session_id, node_id, nack.body.fragment_index)
    IN  IF has_packet(db, packet_id)
           /\ nack.body.nack_type \in {"ErrorInRouting", "UnexpectedRecipient"}
        THEN Perms(chs) ELSE {<<>>}

Reverse(s) == [i \in DOMAIN s |-> s[Len(s) + 1 - i]]

\* FloodRequest::generate_response: the trace's ids reversed, the initiator
\* appended when the route does not end at it.
generate_response(request, session) ==
    LET ids == Reverse([i \in DOMAIN request.path_trace |-> request.path_trace[i][1]])
        hops == IF ids # <<>> /\ ids[Len(ids)] # request.initiator_id
                THEN Append(ids, request.initiator_id) ELSE ids
    IN  [pack_type |-> "FloodResponse",
         routing_header |-> SourceRoutingHeader(hops, 0),
         session_id |-> session,
         body |-> [flood_id |-> request.flood_id, path_trace |-> request.path_trace]]

\* process_flood_request leaving the response's cursor at the local node.
process_flood_request_cursor_unset(g, sid, chs, db, request) ==
    LET traced == [request EXCEPT !.path_trace = Append(@, V(node_id, "Client"))]
        packet == generate_response(traced, sid + 1)
        sent == send_packet(chs, packet)
    IN  Outcome(g, sid + 1, chs, db, sent.out, sent.res, <<>>)

process_flood_request(g, sid, chs, db, request) ==
    LET traced == [request EXCEPT !.path_trace = Append(@, V(node_id, "Client"))]
        packet == [generate_response(traced, sid + 1) EXCEPT !.routing_header.hop_index = 1]
        sent == send_packet(chs, packet)
    IN  Outcome(g, sid + 1, chs, db, sent.out, sent.res, <<>>)

process_flood_response(g, sid, chs, db, response) ==
    LET added == add_route(g, response.path_trace)
    IN  Outcome(added.graph, sid, chs, db, added.out, added.res, <<>>)

\* process_sc_command flooding the neighbours it had before the update.
process_sc_command_flood_first(g, sid, chs, db, command, order) ==
    LET before == flood_network(sid, CHOOSE o \in Perms(chs) : TRUE)
    IN  CASE command.type = "RemoveSender" ->
                Outcome(g, sid, chs \ {command.node}, db, before.out, before.res, <<>>)
          [] command.type = "AddSender" ->
                Outcome(g, sid, chs \cup {command.node}, db, before.out, before.res, <<>>)
          [] OTHER -> Outcome(g, sid, chs, db, <<>>, "ok", <<>>)

\* process_sc_command; `order` is flood_network's iteration order.
process_sc_command(g, sid, chs, db, command, order) ==
    CASE command.type = "RemoveSender" ->
            Outcome(g, sid, chs \ {command.node}, db,
                    flood_network(sid, order).out, flood_network(sid, order).res, <<>>)
      [] command.type = "AddSender" ->
            Outcome(g, sid, chs \cup {command.node}, db,
                    flood_network(sid, order).out, flood_network(sid, order).res, <<>>)
      [] OTHER -> Outcome(g, sid, chs, db, <<>>, "ok", <<>>)

\* The neighbour set flood_network iterates for a supervisor command.
ScFloodOrders(chs, command) ==
    CASE command.type = "RemoveSender" -> Perms(chs \ {command.node})
      [] command.type = "AddSender" -> Perms(chs \cup {command.node})
      [] OTHER -> {<<>>}

\* GetEdgeNodesFromFlood answering also when no edge node is known.
get_edge_nodes_api_always(g, sid, chs, db) ==
    Outcome(g, sid, chs, db,
            <<[ch |-> "flood_response", nodes |-> get_edge_nodes(g)]>>, "ok", <<>>)

get_edge_nodes_api(g, sid, chs, db) ==
    LET nodes == get_edge_nodes(g)
    IN  Outcome(g, sid, chs, db,
                IF nodes = <<>> THEN <<>>
                ELSE <<[ch |-> "flood_response", nodes |-> nodes]>>,
                "ok", <<>>)

\* GetUnreadMessagesFromServer; `order` is the order the message keys are walked in.
get_unread_messages_api(g, sid, chs, db, order) ==
    LET db1 == [db EXCEPT !.messages_read = @ \cup Range(order)]
    IN  Outcome(g, sid, chs, db1,
                IF order = <<>> THEN <<>>
                ELSE <<[ch |-> "unread", messages |-> [i \in DOMAIN order |-> db.messages[order[i]]]]>>,
                "ok", <<>>)

(***************************************************************************)
(* The service wrapper's check of the neighbours it is constructed with:   *)
(* accepted, or the error string returned (its text, and the count the     *)
(* second text is formatted with).                                         *)
(***************************************************************************)
\* validate_options testing the neighbour count before the own id.
validate_options_count_first(offered, node) ==
    IF Cardinality(offered) > 2 \/ offered = {}
    THEN [ok |-> FALSE,
          error |-> <<"There are {} drones connected when the there must be 1-2 connected drones.",
                      Cardinality(offered)>>]
    ELSE IF node \in offered
    THEN [ok |-> FALSE, error |-> <<"Own ID is used as a recipient.">>]
    ELSE [ok |-> TRUE, error |-> <<>>]

validate_options(offered, node) ==
    IF node \in offered
    THEN [ok |-> FALSE, error |-> <<"Own ID is used as a recipient.">>]
    ELSE IF Cardinality(offered) > 2 \/ offered = {}
    THEN [ok |-> FALSE,
          error |-> <<"There are {} drones connected when the there must be 1-2 connected drones.",
                      Cardinality(offered)>>]
    ELSE [ok |-> TRUE, error |-> <<>>]

(***************************************************************************)
(* The events the engine is fed.                                           *)
(***************************************************************************)
Contents == {<<>>, <<7, 8>>}

\* Messages the application submits (send_message overwrites session_id).
ApiMessages ==
    {Message(s, d, 0, c) : s \in {node_id, 2}, d \in {3}, c \in Contents}

\* Fragments of messages other nodes send, as they arrive.
RemoteFragments ==
    Range(message_to_packets(Message(2, node_id, 1, <<7, 8>>),
                             SourceRoutingHeader(<<2, node_id>>, 1)))

\* Fragments no well-behaved node sends: no hop list; the local node as first hop.
OddFragments ==
    {new_fragment(SourceRoutingHeader(<<>>, 0), 1,
                  [fragment_index |-> 0, total_n_fragments |-> 1, data |-> <<7>>]),
     new_fragment(SourceRoutingHeader(<<node_id, 2>>, 1), 1,
                  [fragment_index |-> 1, total_n_fragments |-> 2, data |-> <<8>>])}

InboundFragments == RemoteFragments \cup OddFragments

FragmentIds == {0, 1}

NackTypes == {"ErrorInRouting", "DestinationIsDrone", "Dropped", "UnexpectedRecipient"}

InboundAcks ==
    {[pack_type |-> "Ack", routing_header |-> SourceRoutingHeader(<<2, node_id>>, 1),
      session_id |-> s, body |-> [fragment_index |-> f]] :
        s \in 1..MaxSession, f \in FragmentIds}

InboundNacks ==
    {[pack_type |-> "Nack", routing_header |-> SourceRoutingHeader(<<2, node_id>>, 1),
      session_id |-> s, body |-> [fragment_index |-> f, nack_type |-> t]] :
        s \in 1..MaxSession, f \in FragmentIds, t \in NackTypes}

FloodRequests ==
    {[flood_id |-> 1, initiator_id |-> 2, path_trace |-> <<V(2, "Drone")>>],
     [flood_id |-> 1, initiator_id |-> 3, path_trace |-> <<V(3, "Client"), V(2, "Drone")>>],
     [flood_id |-> 1, initiator_id |-> 2, path_trace |-> <<>>]}

FloodTraces ==
    {<<>>,
     <<V(node_id, "Client"), V(2, "Drone"), V(3, "Drone")>>,
     <<V(node_id, "Client"), V(3, "Drone")>>,
     <<V(2, "Drone"), V(3, "Drone")>>}

\* Every path trace of up to MaxTrace vertices.
GraphVertices ==
    {V(node_id, "Client"), V(2, "Drone"), V(3, "Drone"), V(3, "Server")}

RECURSIVE SeqsUpTo(_, _)
SeqsUpTo(S, n) ==
    IF n = 0 THEN {<<>>}
    ELSE SeqsUpTo(S, n - 1)
         \cup {Append(t, v) : t \in {u \in SeqsUpTo(S, n - 1) : Len(u) = n - 1}, v \in S}

AnyTraces == SeqsUpTo(GraphVertices, MaxTrace)

ScCommands ==
    {[type |-> t, node |-> n] : t \in {"RemoveSender", "AddSender"}, n \in {3}}
    \cup {[type |-> "Crash", node |-> 0]}

\* Messages and routes handed to the codec directly.
CodecMessages ==
    {Message(s, 3, n, c) : s \in NodeIds, n \in 0..MaxSession,
                           c \in SeqsUpTo(ContentBytes, MaxContent)}

CodecRoutes == {<<>>, <<node_id, 2, 3>>}

\* Messages saved to the store directly.
StoredMessages ==
    {Message(s, node_id, n, c) : s \in NodeIds, n \in 1..MaxSession, c \in Contents}

\* Fragments saved to the store directly: two-fragment sessions of the local node.
StoredFragments ==
    {new_fragment(SourceRoutingHeader(<<node_id, 3>>, 1), n,
                  [fragment_index |-> f, total_n_fragments |-> 2, data |-> <<7>>]) :
        n \in 1..MaxSession, f \in FragmentIds}

\* Packets of the other types, handed to save_packet directly.
StoredNonFragments ==
    {[pack_type |-> "Ack", routing_header |-> SourceRoutingHeader(<<node_id, 3>>, 1),
      session_id |-> 1, body |-> [fragment_index |-> 0]],
     [pack_type |-> "Nack", routing_header |-> SourceRoutingHeader(<<node_id, 3>>, 1),
      session_id |-> 1, body |-> [fragment_index |-> 0, nack_type |-> "Dropped"]],
     get_new_flood_request_packet(1, node_id),
     [get_new_flood_request_packet(1, node_id)
        EXCEPT !.routing_header = SourceRoutingHeader(<<node_id, 3>>, 1)],
     [generate_response([flood_id |-> 1, initiator_id |-> 3,
                         path_trace |-> <<V(3, "Client"), V(node_id, "Client")>>], 1)
        EXCEPT !.routing_header.hop_index = 1]}

\* The packets of one session handed to save_packet: its two fragments and
\* packets of every other type.
MarkedPackets ==
    {p \in StoredFragments : p.session_id = 1} \cup StoredNonFragments

\* The messages of one session and sender saved directly.
MarkedMessages == {Message(2, node_id, 1, c) : c \in Contents}

\* One stored message of the local node and one of another sender.
QueriedMessages == {Message(s, 3, 1, <<7>>) : s \in {node_id, 2}}

\* The message ids and packet ids the store is asked to mark.
MarkedMessageIds == {MessageID(1, 2), MessageID(1, 3)}

MarkedPacketIds == {PacketID(1, s, f) : s \in {node_id, 2}, f \in FragmentIds}

\* The (session, sender) pairs the store is asked about.
StoreSessions == {<<n, s>> : n \in 1..MaxSession, s \in {node_id, 2}}

\* The neighbour set the service wrapper lets the engine start with.
InitialNeighbors == {{2, 3}}

\* The neighbour maps Service::new is called with.
OfferedNeighbors == SUBSET (1..MaxNeighbor)

Event(type, arg) == [type |-> type, arg |-> arg]

(***************************************************************************)
(* The engine's event loop (listen_channels): at "select" it waits for an  *)
(* event of any of its three sources; one action per event kind handles it *)
(* and logs the result ("handled"), or the thread panics ("panicked");     *)
(* Listen is the loop's way back to the select.                           *)
(***************************************************************************)
Init ==
    /\ graph = NetGraph_new
    /\ session_id = 0
    /\ outbound_packet_channels \in InitialNeighbors
    /\ database = Database_new
    /\ pc = "select"
    /\ ev = Event("None", <<>>)
    /\ res = "ok"
    /\ out = <<>>
    /\ codec_in = <<>>
    /\ closed_channels = {}

\* Before Service::new: nothing is constructed yet.
InitNew ==
    /\ graph = NetGraph_new
    /\ session_id = 0
    /\ outbound_packet_channels = {}
    /\ database = Database_new
    /\ pc = "new"
    /\ ev = Event("None", <<>>)
    /\ res = "ok"
    /\ out = <<>>
    /\ codec_in = <<>>
    /\ closed_channels = {}

\* Service::new: the engine is built with the neighbours given and runs
\* ("select"), or the error is returned and no engine exists ("rejected").
ServiceNew ==
    /\ pc = "new"
    /\ \E offered \in OfferedNeighbors :
         LET checked == validate_options(offered, node_id)
         IN  /\ pc' = IF checked.ok THEN "select" ELSE "rejected"
             /\ outbound_packet_channels' = IF checked.ok THEN offered ELSE {}
             /\ res' = IF checked.ok THEN "ok" ELSE "err"
             /\ out' = IF checked.ok THEN <<>> ELSE <<checked.error>>
             /\ ev' = Event("new", offered)
    /\ UNCHANGED <<graph, session_id, database, codec_in, closed_channels>>

\* The engine after a handler returned `o` for event `e`.
Apply(o, e) ==
    /\ graph' = o.graph
    /\ session_id' = o.session_id
    /\ outbound_packet_channels' = o.channels
    /\ database' = o.database
    /\ pc' = IF o.res = "panic" THEN "panicked" ELSE "handled"
    /\ ev' = e
    /\ res' = o.res
    /\ out' = o.out
    /\ codec_in' = o.codec_in
    /\ UNCHANGED closed_channels

Listen ==
    /\ pc = "handled"
    /\ pc' = "select"
    /\ ev' = Event("None", <<>>)
    /\ res' = "ok"
    /\ out' = <<>>
    /\ codec_in' = <<>>
    /\ UNCHANGED <<graph, session_id, outbound_packet_channels, database, closed_channels>>

\* The receiving end of a neighbour's channel or of the supervisor's event
\* channel is dropped: from now on a send on it fails.
ChannelCloses ==
    /\ pc = "select"
    /\ \E c \in (outbound_packet_channels \cup {sc_channel}) \ closed_channels :
         closed_channels' = closed_channels \cup {c}
    /\ UNCHANGED <<graph, session_id, outbound_packet_channels, database,
                   pc, ev, res, out, codec_in>>

\* A fragment whose group still counts below the model's cap.
CanCount(db, p) ==
    IF p.routing_header.hops = <<>> THEN TRUE
    ELSE IF ~has_session(db, p.session_id, p.routing_header.hops[1]) THEN TRUE
    ELSE get_amount_of_fragments_received(db, p.session_id, p.routing_header.hops[1]) < MaxRecv

RecvFragment ==
    /\ pc = "select"
    /\ \E p \in InboundFragments :
         /\ CanCount(database, p)
         /\ \E order \in FragmentOrders(database, p) :
              Apply(process_fragment(graph, session_id, outbound_packet_channels,
                                     database, p, order),
                    Event("Fragment", p))

RecvAck ==
    /\ pc = "select"
    /\ \E p \in InboundAcks :
         Apply(process_ack(graph, session_id, outbound_packet_channels, database, p),
               Event("Ack", p))

RecvNack ==
    /\ pc = "select"
    /\ \E p \in InboundNacks :
         \E order \in NackFloodOrders(outbound_packet_channels, database, p) :
           \E hops \in NackRoutes(graph, database, p) :
             Apply(process_nack(graph, session_id, outbound_packet_channels,
                                database, p, order, hops),
                   Event("Nack", p))

RecvFloodRequest ==
    /\ pc = "select"
    /\ session_id < MaxSession
    /\ \E r \in FloodRequests :
         Apply(process_flood_request(graph, session_id, outbound_packet_channels,
                                     database, r),
               Event("FloodRequest", r))

FloodResponseFrom(traces) ==
    /\ pc = "select"
    /\ \E t \in traces :
         Apply(process_flood_response(graph, session_id, outbound_packet_channels,
                                      database, [flood_id |-> 1, path_trace |-> t]),
               Event("FloodResponse", t))

RecvFloodResponse == FloodResponseFrom(FloodTraces)

RecvAnyFloodResponse == FloodResponseFrom(AnyTraces)

ScCommand ==
    /\ pc = "select"
    /\ \E c \in ScCommands :
         \E order \in ScFloodOrders(outbound_packet_channels, c) :
           Apply(process_sc_command(graph, session_id, outbound_packet_channels,
                                    database, c, order),
                 Event("ScCommand", c))

\* NetGraph::reset called on the engine's graph.
GraphReset ==
    /\ pc = "select"
    /\ Apply(Outcome(reset(graph), session_id, outbound_packet_channels, database,
                     <<>>, "ok", <<>>),
             Event("reset", <<>>))

ApiGetEdgeNodes ==
    /\ pc = "select"
    /\ Apply(get_edge_nodes_api(graph, session_id, outbound_packet_channels, database),
             Event("GetEdgeNodesFromFlood", <<>>))

ApiInitializeFlood ==
    /\ pc = "select"
    /\ \E order \in Perms(outbound_packet_channels) :
         Apply(Outcome(graph, session_id, outbound_packet_channels, database,
                       flood_network(session_id, order).out,
                       flood_network(session_id, order).res, <<>>),
               Event("InitializeFlood", order))

ApiSendMessage ==
    /\ pc = "select"
    /\ session_id < MaxSession
    /\ \E m \in ApiMessages :
         \E hops \in RouteChoices(graph, m.destination) :
           Apply(send_message(graph, session_id, outbound_packet_channels,
                              database, m, hops),
                 Event("SendMessage", m))

ApiGetUnreadMessages ==
    /\ pc = "select"
    /\ \E order \in Perms(unread_message_ids(database, node_id)) :
         Apply(get_unread_messages_api(graph, session_id, outbound_packet_channels,
                                       database, order),
               Event("GetUnreadMessagesFromServer", <<>>))

ApiGetClientsFromServer ==
    /\ pc = "select"
    /\ \E server \in {3} :
         Apply(Outcome(graph, session_id, outbound_packet_channels, database,
                       <<>>, "ok", <<>>),
               Event("GetClientsFromServer", server))

\* message_to_packets called on a message and a route; the packets are kept
\* for packets_to_message.
CodecFragment ==
    /\ pc = "select"
    /\ \E m \in CodecMessages, hops \in CodecRoutes :
         /\ codec_in' = message_to_packets(m, SourceRoutingHeader(hops, 1))
         /\ ev' = Event("message_to_packets", [message |-> m, hops |-> hops])
    /\ pc' = "fragmented"
    /\ res' = "ok"
    /\ out' = <<>>
    /\ UNCHANGED <<graph, session_id, outbound_packet_channels, database, closed_channels>>

\* packets_to_message called on the packets just made, in their order.
CodecReassemble ==
    /\ pc = "fragmented"
    /\ out' = <<packets_to_message(codec_in)>>
    /\ res' = IF packets_to_message(codec_in).ok THEN "ok" ELSE "err"
    /\ pc' = "handled"
    /\ UNCHANGED <<graph, session_id, outbound_packet_channels, database, ev, codec_in,
                   closed_channels>>

\* The store's operations called on the engine's store.
StoreOp(db, o, r, e) ==
    Apply(Outcome(graph, session_id, outbound_packet_channels, db, o, r, <<>>), e)

StoreSaveMessageFrom(messages) ==
    /\ pc = "select"
    /\ \E m \in messages :
         StoreOp(save_message(database, m), <<>>, "ok", Event("save_message", m))

StoreSaveMessage == StoreSaveMessageFrom(StoredMessages)

StoreSaveMarkedMessage == StoreSaveMessageFrom(MarkedMessages)

StoreSaveQueriedMessage == StoreSaveMessageFrom(QueriedMessages)

StoreSavePacketFrom(packets) ==
    /\ pc = "select"
    /\ \E p \in packets :
         /\ CanCount(database, p)
         /\ StoreOp(save_packet(database, p).db, <<>>, save_packet(database, p).res,
                    Event("save_packet", p))

StoreSavePacket == StoreSavePacketFrom(StoredFragments)

StoreSaveMarkedPacket == StoreSavePacketFrom(MarkedPackets)

StoreMarkRead ==
    /\ pc = "select"
    /\ \E id \in MarkedMessageIds :
         LET marked == update_message_to_read(database, id)
         IN  StoreOp(marked.db, <<>>, marked.res, Event("update_message_to_read", id))

StoreMarkMessageSent ==
    /\ pc = "select"
    /\ \E id \in MarkedMessageIds :
         LET marked == update_message_sent_to_simulation_controller(database, id)
         IN  StoreOp(marked.db, <<>>, marked.res,
                     Event("update_message_sent_to_simulation_controller", id))

StoreMarkPacketSent ==
    /\ pc = "select"
    /\ \E id \in MarkedPacketIds :
         LET marked == update_packet_sent_to_simulation_controller(database, id)
         IN  StoreOp(marked.db, <<>>, marked.res,
                     Event("update_packet_sent_to_simulation_controller", id))

StoreAckReceived ==
    /\ pc = "select"
    /\ \E k \in StoreSessions, f \in FragmentIds :
         LET marked == update_packet_ack_received(database, PacketID(k[1], k[2], f))
         IN  StoreOp(marked.db, <<>>, marked.res,
                     Event("update_packet_ack_received", PacketID(k[1], k[2], f)))

StoreAllSent ==
    /\ pc = "select"
    /\ \E k \in StoreSessions :
         StoreOp(database, <<all_packets_successfully_sent(database, k[1], k[2])>>, "ok",
                 Event("all_packets_successfully_sent", k))

Next ==
    \/ Listen
    \/ RecvFragment
    \/ RecvAck
    \/ RecvNack
    \/ RecvFloodRequest
    \/ RecvFloodResponse
    \/ ScCommand
    \/ ApiGetEdgeNodes
    \/ ApiInitializeFlood
    \/ ApiSendMessage
    \/ ApiGetUnreadMessages
    \/ ApiGetClientsFromServer

Spec == Init /\ [][Next]_vars

\* The engine fed by the application, the supervisor and the network's
\* answers to the engine's own traffic.
NextSend ==
    \/ Listen
    \/ RecvFloodResponse
    \/ ScCommand
    \/ ApiSendMessage
    \/ RecvAck
    \/ RecvNack
    \/ ApiInitializeFlood

SpecSend == Init /\ [][NextSend]_vars

\* The engine fed by other nodes' fragments and the application's reads.
NextRecv ==
    \/ Listen
    \/ RecvFragment
    \/ ApiGetUnreadMessages

SpecRecv == Init /\ [][NextRecv]_vars

\* The topology graph fed by flood responses with any path trace, cleared
\* and queried for its edge nodes.
NextGraph ==
    \/ Listen
    \/ RecvAnyFloodResponse
    \/ GraphReset
    \/ ApiGetEdgeNodes

SpecGraph == Init /\ [][NextGraph]_vars

\* The store's message table filled directly and drained by the application.
NextInbox ==
    \/ Listen
    \/ StoreSaveMessage
    \/ ApiGetUnreadMessages

SpecInbox == Init /\ [][NextInbox]_vars

\* The store's fragment table filled, acknowledged and queried directly.
NextAcks ==
    \/ Listen
    \/ StoreSavePacket
    \/ StoreAckReceived
    \/ StoreAllSent

SpecAcks == Init /\ [][NextAcks]_vars

\* The codec alone: a message is fragmented, the fragments are reassembled.
NextCodec ==
    \/ Listen
    \/ CodecFragment
    \/ CodecReassemble

SpecCodec == Init /\ [][NextCodec]_vars

\* The store of one session filled and marked directly, and the engine's
\* own marking on inbound acks, nacks and the application's reads.
NextMarks ==
    \/ Listen
    \/ StoreSaveMarkedMessage
    \/ StoreSaveMarkedPacket
    \/ StoreMarkRead
    \/ StoreMarkMessageSent
    \/ StoreMarkPacketSent
    \/ StoreAckReceived
    \/ RecvAck
    \/ RecvNack
    \/ ApiGetUnreadMessages

SpecMarks == Init /\ [][NextMarks]_vars

\* The application's queries and the supervisor's commands, on a graph fed by
\* flood responses and a message table filled directly.
NextQueries ==
    \/ Listen
    \/ RecvFloodResponse
    \/ StoreSaveQueriedMessage
    \/ ScCommand
    \/ ApiGetEdgeNodes
    \/ ApiGetUnreadMessages
    \/ ApiGetClientsFromServer

SpecQueries == Init /\ [][NextQueries]_vars

\* The engine sending messages and floods while its outbound channels close.
NextFaults ==
    \/ Listen
    \/ ChannelCloses
    \/ RecvFloodResponse
    \/ ApiSendMessage
    \/ ApiInitializeFlood

SpecFaults == Init /\ [][NextFaults]_vars

\* The service constructed with any neighbours, then the engine fed by flood
\* requests, the supervisor and the application's floods.
NextService ==
    \/ ServiceNew
    \/ Listen
    \/ RecvFloodRequest
    \/ ScCommand
    \/ ApiInitializeFlood

SpecService == InitNew /\ [][NextService]_vars

(***************************************************************************)
(* Properties.                                                             *)
(***************************************************************************)
\* The event last handled is of kind `type`.
Handled(type) == pc = "handled" /\ ev.type = type

\* The packet id an inbound ack or nack names.
NamedPacket(p) == PacketID(p.session_id, node_id, p.body.fragment_index)

\* Outputs o1, o2 are one flood request sent to a neighbour and its PacketSent.
IsFloodPair(o1, o2) ==
    /\ o1.ch = "neighbor"
    /\ o1.packet = get_new_flood_request_packet(session_id, node_id)
    /\ o2 = PacketSent(o1.packet)

\* Outputs o1, o2 are the fragment `stored` resent on a route of the graph to
\* its destination, and its PacketSent.
IsResendPair(o1, o2, stored) ==
    LET old == stored.routing_header.hops
        new == o1.packet.routing_header.hops
    IN  /\ o1.ch = "neighbor"
        /\ IsFragment(o1.packet)
        /\ o1.packet.session_id = stored.session_id
        /\ o1.packet.body = stored.body
        /\ new \in get_route_to_node(graph, old[Len(old)])
        /\ new[Len(new)] = old[Len(old)]
        /\ o1.to = new[2]
        /\ o2 = PacketSent(o1.packet)

\* C1: the engine never stops serving events: whatever packet or command it
\* is handed, the handler returns (ok or a logged error) and the loop goes on.
C1_EngineNeverStops == pc # "panicked"

\* C2: a reassembly is attempted only on a complete session: when fragments
\* are handed to the codec, the store holds every index 0..total-1 of the
\* fragment's (session, sender).
C2_ReassemblyOnlyWhenComplete ==
    (Handled("Fragment") /\ codec_in # <<>>) =>
        \A i \in 0..(ev.arg.body.total_n_fragments - 1) :
            has_packet(database,
                       PacketID(ev.arg.session_id, ev.arg.routing_header.hops[1], i))

\* C3: the fragments handed to the codec are in ascending FragmentId order.
C3_CodecGetsAscendingOrder ==
    Handled("Fragment") =>
        \A i, j \in DOMAIN codec_in :
            i < j => codec_in[i].body.fragment_index < codec_in[j].body.fragment_index

\* C4: on an Ack for session s naming a fragment of the message M submitted
\* under s, MessageSentSuccessfully(M) is emitted if and only if every
\* fragment of M is then acknowledged, and nothing but M is reported.
C4_SentSuccessfullyIffAllAcked ==
    Handled("Ack") =>
        /\ \A m \in Range(database.messages) :
             (/\ m.session_id = ev.arg.session_id
              /\ ev.arg.body.fragment_index < n_fragments(stringify(m)))
             => ((MessageEvent("MessageSentSuccessfully", m) \in Range(out))
                 <=> \A f \in 0..(n_fragments(stringify(m)) - 1) :
                        PacketID(m.session_id, node_id, f) \in database.packets_received_ack)
        /\ \A o \in Range(out) :
             /\ o.message \in Range(database.messages)
             /\ o.message.session_id = ev.arg.session_id

\* C5: a successful SendMessage of k fragments emits StartingMessageTransmission,
\* then per fragment in index order the packet to the route's first hop and its
\* PacketSent; the store then holds the message and the k fragments under the
\* session id just allocated.
C5_SendMessageOutputsInOrder ==
    (Handled("SendMessage") /\ res = "ok") =>
        LET m == [ev.arg EXCEPT !.session_id = session_id]
            k == n_fragments(stringify(m))
        IN  /\ Len(out) = 2 * k + 1
            /\ out[1] = MessageEvent("StartingMessageTransmission", m)
            /\ \A i \in 1..k :
                 /\ out[2 * i].ch = "neighbor"
                 /\ IsFragment(out[2 * i].packet)
                 /\ out[2 * i].packet.body.fragment_index = i - 1
                 /\ out[2 * i].packet.body.total_n_fragments = k
                 /\ out[2 * i].packet.session_id = session_id
                 /\ out[2 * i].packet.routing_header.hops
                        \in get_route_to_node(graph, m.destination)
                 /\ out[2 * i].packet.routing_header.hops[1] = node_id
                 /\ out[2 * i].to = out[2 * i].packet.routing_header.hops[2]
                 /\ out[2 * i + 1] = PacketSent(out[2 * i].packet)
                 /\ has_packet(database, PacketID(session_id, node_id, i - 1))
                 /\ get_packet(database, PacketID(session_id, node_id, i - 1))
                        = out[2 * i].packet
            /\ reassemble([i \in 1..k |-> out[2 * i].packet.body]) = stringify(m)
            /\ has_message(database, MessageID(session_id, m.source))
            /\ database.messages[MessageID(session_id, m.source)] = m

\* C5 witness: a two-fragment message was sent.
C5_Witness == Handled("SendMessage") /\ res = "ok" /\ Len(out) = 5

\* C6: SendMessage to a destination that is unknown to the graph or has no
\* route fails: nothing is sent, no event is emitted, the store is unchanged.
C6_NoRouteSendFails ==
    [][(/\ pc = "select"
        /\ ev'.type = "SendMessage"
        /\ get_route_to_node(graph, ev'.arg.destination) = {})
       => (/\ pc' = "handled"
           /\ res' = "err"
           /\ out' = <<>>
           /\ database' = database)]_vars

\* C6 witness: a SendMessage failed for a destination the graph knows but
\* cannot reach from the local node.
C6_Witness ==
    /\ Handled("SendMessage")
    /\ res = "err"
    /\ get_node_type(graph, ev.arg.destination) # "none"
    /\ get_route_to_node(graph, ev.arg.destination) = {}

\* C7: on a Nack with reason ErrorInRouting or UnexpectedRecipient for a
\* stored fragment the engine first sends a flood request to every neighbour
\* and then resends the fragment (same session, index and payload) on a route
\* of the graph to the fragment's destination.
C7_RoutingNackFloodsThenResends ==
    (/\ Handled("Nack")
     /\ ev.arg.body.nack_type \in {"ErrorInRouting", "UnexpectedRecipient"}
     /\ has_packet(database, NamedPacket(ev.arg)))
    => LET n == Cardinality(outbound_packet_channels)
       IN  /\ Len(out) = 2 * n + 2
           /\ \A i \in 1..n : IsFloodPair(out[2 * i - 1], out[2 * i])
           /\ {out[2 * i - 1].to : i \in 1..n} = outbound_packet_channels
           /\ IsResendPair(out[2 * n + 1], out[2 * n + 2],
                           get_packet(database, NamedPacket(ev.arg)))

\* C8: on a Nack with reason Dropped for a stored fragment the engine sends no
\* flood request and resends exactly one copy of the fragment on a route of
\* the graph to the fragment's destination.
C8_DroppedNackResendsOnce ==
    (/\ Handled("Nack")
     /\ ev.arg.body.nack_type = "Dropped"
     /\ has_packet(database, NamedPacket(ev.arg)))
    => /\ Len(out) = 2
       /\ IsResendPair(out[1], out[2], get_packet(database, NamedPacket(ev.arg)))

\* C9: a Nack with reason DestinationIsDrone for a stored fragment causes no
\* recovery: nothing is sent or emitted, and store, graph, neighbour set and
\* session counter stay as they were.
C9_DroneNackIsInert ==
    [][(/\ pc = "select"
        /\ ev'.type = "Nack"
        /\ ev'.arg.body.nack_type = "DestinationIsDrone"
        /\ has_packet(database, NamedPacket(ev'.arg)))
       => (/\ pc' = "handled"
           /\ res' = "ok"
           /\ out' = <<>>
           /\ UNCHANGED <<database, graph, outbound_packet_channels, session_id>>)]_vars

\* C9 witness: such a Nack was handled for a fragment that has a route.
C9_Witness ==
    /\ Handled("Nack")
    /\ ev.arg.body.nack_type = "DestinationIsDrone"
    /\ has_packet(database, NamedPacket(ev.arg))
    /\ get_route_to_node(graph, 3) # {}

\* A path whose nodes after the first are drones, except possibly the last.
RelaysInside(route) ==
    /\ Len(route) >= 2
    /\ \A i \in 2..(Len(route) - 1) : route[i][2] = "Drone"

\* C10: for such a path add_route inserts both vertices of every consecutive
\* pair and the edge between them in both directions, the final Client or
\* Server vertex and its edge included.
C10_AddRouteInsertsWholePath ==
    (Handled("FloodResponse") /\ RelaysInside(ev.arg)) =>
        \A i \in 1..(Len(ev.arg) - 1) :
            /\ contains_node(graph, ev.arg[i])
            /\ contains_node(graph, ev.arg[i + 1])
            /\ <<ev.arg[i], ev.arg[i + 1]>> \in graph.edges
            /\ <<ev.arg[i + 1], ev.arg[i]>> \in graph.edges

\* The node ids of a path of vertices.
Ids(path) == [i \in DOMAIN path |-> path[i][1]]

\* A path of relays with distinct ids that ends in a Server.
RelayChainToServer(route) ==
    /\ Len(route) >= 2
    /\ \A i \in 1..(Len(route) - 1) : route[i][2] = "Drone"
    /\ route[Len(route)][2] = "Server"
    /\ \A i, j \in DOMAIN route : i # j => route[i][1] # route[j][1]

\* C11: after add_route on an empty graph with a chain of relays ending in a
\* Server, the routes from the chain's first vertex to the Server vertex are
\* exactly the one path of the chain's ids in order.
C11_ChainToServerIsRouted ==
    [][(/\ pc = "select"
        /\ graph = NetGraph_new
        /\ ev'.type = "FloodResponse"
        /\ RelayChainToServer(ev'.arg))
       => compute_routes(graph', ev'.arg[1], ev'.arg[Len(ev'.arg)]) = {Ids(ev'.arg)}]_vars

\* The pair of a path at which add_route stops: the first pair whose later
\* node is a Client or Server; 0 when there is none.
StopPair(route) ==
    LET stops == {i \in 1..(Len(route) - 1) : route[i + 1][2] \in {"Client", "Server"}}
    IN  IF stops = {} THEN 0 ELSE CHOOSE i \in stops : \A j \in stops : i <= j

\* C12: when add_route meets a pair whose later node is a Client or Server
\* that is not the path's final element, it stops: the graph gains the
\* vertices and both edges of the pairs before that pair and nothing else; a
\* path stopping at its first pair adds no vertex and no edge.
C12_StopsAtInnerEdgeNode ==
    [][(/\ pc = "select"
        /\ ev'.type = "FloodResponse"
        /\ StopPair(ev'.arg) # 0
        /\ StopPair(ev'.arg) + 1 < Len(ev'.arg))
       => LET k == StopPair(ev'.arg)
              earlier == 1..(k - 1)
          IN  /\ pc' = "handled"
              /\ Range(graph'.nodes) = Range(graph.nodes)
                     \cup {ev'.arg[i] : i \in earlier} \cup {ev'.arg[i + 1] : i \in earlier}
              /\ graph'.edges = graph.edges
                     \cup {<<ev'.arg[i], ev'.arg[i + 1]>> : i \in earlier}
                     \cup {<<ev'.arg[i + 1], ev'.arg[i]>> : i \in earlier}]_vars

\* C12 witness: a path stopped at its second pair, after the first pair put
\* two vertices and their edge into a graph that lacks the later nodes.
C12_Witness ==
    /\ Handled("FloodResponse")
    /\ Len(ev.arg) = 4
    /\ StopPair(ev.arg) = 2
    /\ <<ev.arg[1], ev.arg[2]>> \in graph.edges
    /\ ~contains_node(graph, ev.arg[3])
    /\ ~contains_node(graph, ev.arg[4])

\* C13: every add_route call that returns emits one KnownNetworkGraph
\* snapshot of the graph as it stands at the end of the call, also when the
\* walk stopped early.
C13_SnapshotOnEveryCall ==
    Handled("FloodResponse") => out = <<notify_sc_of_known_topology(graph)>>

\* C14: the adjacency relation is symmetric in every reachable state:
\* whenever the edge (a,b) is present the edge (b,a) is present too.
C14_EdgesSymmetric ==
    \A e \in graph.edges : <<e[2], e[1]>> \in graph.edges

\* C14 witness: a graph with an edge between two different vertices.
C14_Witness ==
    \E e \in graph.edges : e[1] # e[2]

\* C15: add_route is idempotent on the graph: a second call with the same
\* path leaves the vertices and edges the first call left.
C15_AddRouteIdempotent ==
    [][(pc = "select" /\ ev'.type = "FloodResponse")
       => LET again == add_route(graph', ev'.arg).graph
          IN  /\ again.nodes = graph'.nodes
              /\ again.edges = graph'.edges]_vars

\* C15 witness: a path was added that changed the graph.
C15_Witness ==
    /\ Handled("FloodResponse")
    /\ Len(ev.arg) >= 3
    /\ \A i \in 1..(Len(ev.arg) - 1) : <<ev.arg[i], ev.arg[i + 1]>> \in graph.edges

\* C16: edge_nodes returns exactly the known vertices whose kind is not
\* Relay, each once with its id and kind, and none when there is no such vertex.
C16_EdgeNodesAreNonRelays ==
    Handled("GetEdgeNodesFromFlood") =>
        LET expected == {v \in Range(graph.nodes) : v[2] \in {"Client", "Server"}}
        IN  IF expected = {} THEN out = <<>>
            ELSE /\ Len(out) = 1
                 /\ Range(out[1].nodes) = expected
                 /\ Len(out[1].nodes) = Cardinality(expected)

\* C16 witness: edge nodes were reported for a graph holding a relay, a
\* Client and a Server.
C16_Witness ==
    /\ Handled("GetEdgeNodesFromFlood")
    /\ out # <<>>
    /\ \E v \in Range(graph.nodes) : v[2] = "Drone"
    /\ \E v \in Range(graph.nodes) : v[2] = "Client"
    /\ \E v \in Range(graph.nodes) : v[2] = "Server"

\* The simple paths of g that extend the prefix `path` to the vertex `to`.
RECURSIVE SimplePathsFrom(_, _, _)
SimplePathsFrom(g, path, to) ==
    IF path[Len(path)] = to THEN {path}
    ELSE UNION {SimplePathsFrom(g, Append(path, w), to) :
                   w \in neighbors(g, path[Len(path)]) \ Range(path)}

\* A path of g from `from` to `to` that repeats no vertex.
IsSimplePath(g, path, from, to) ==
    /\ path # <<>>
    /\ path[1] = from
    /\ path[Len(path)] = to
    /\ \A i \in DOMAIN path : contains_node(g, path[i])
    /\ \A i, j \in DOMAIN path : i # j => path[i] # path[j]
    /\ \A i \in 1..(Len(path) - 1) : <<path[i], path[i + 1]>> \in g.edges

\* C17: the results route(from, to) can return are the simple paths of the
\* graph from `from` to `to`: each result starts at `from`, ends at `to`,
\* repeats no vertex and follows edges; every such path between two different
\* vertices is a possible result; there is none exactly when no path exists.
C17_RoutesAreTheSimplePaths ==
    \A from \in Range(graph.nodes), to \in Range(graph.nodes) :
        LET found == all_simple_paths(graph, <<from>>, to, Len(graph.nodes) - 1)
        IN  /\ \A path \in found : IsSimplePath(graph, path, from, to)
            /\ from # to => found = SimplePathsFrom(graph, <<from>>, to)

\* C18: all_fragments_acknowledged(session, sender) is none when no fragment
\* of the session is stored, and otherwise true exactly when every stored
\* fragment index of the session is in the ack-received set.
C18_AllAckedIffEveryStoredAcked ==
    Handled("all_packets_successfully_sent") =>
        LET stored == {f \in FragmentIds :
                          has_packet(database, PacketID(ev.arg[1], ev.arg[2], f))}
            acked == {f \in FragmentIds :
                          PacketID(ev.arg[1], ev.arg[2], f) \in database.packets_received_ack}
        IN  /\ Len(out) = 1
            /\ out[1].some <=> stored # {}
            /\ out[1].some => (out[1].value <=> stored \subseteq acked)

\* C18 witness: two fragments stored, both acknowledged, the answer is true.
C18_Witness ==
    /\ Handled("all_packets_successfully_sent")
    /\ has_packet(database, PacketID(ev.arg[1], ev.arg[2], 0))
    /\ has_packet(database, PacketID(ev.arg[1], ev.arg[2], 1))
    /\ PacketID(ev.arg[1], ev.arg[2], 0) \in database.packets_received_ack
    /\ PacketID(ev.arg[1], ev.arg[2], 1) \in database.packets_received_ack
    /\ out = <<Some(TRUE)>>

\* The ids of the messages a GetUnreadMessages answer carries.
ReturnedIds(o) ==
    IF o = <<>> THEN {}
    ELSE {MessageID(o[1].messages[i].session_id, o[1].messages[i].source) :
             i \in DOMAIN o[1].messages}

\* C19: unread_message_ids(self) never returns a message whose sender is
\* self, returns only ids not marked read and marks each returned id read,
\* read marks are never removed (so no id is returned twice over all calls),
\* and it returns none exactly when no unread message of another sender remains.
C19_UnreadDrainedOnce ==
    [][/\ database.messages_read \subseteq database'.messages_read
       /\ (pc = "select" /\ ev'.type = "GetUnreadMessagesFromServer")
          => /\ \A id \in ReturnedIds(out') :
                  /\ id[2] # node_id
                  /\ id \notin database.messages_read
                  /\ id \in database'.messages_read
             /\ out' # <<>> => Len(out'[1].messages) = Cardinality(ReturnedIds(out'))
             /\ out' = <<>> <=> ~\E id \in DOMAIN database.messages :
                                   id[2] # node_id /\ id \notin database.messages_read]_vars

\* C19 witness: a drain returned a message while the store holds a message
\* of the local node and an id returned by an earlier drain.
C19_Witness ==
    /\ Handled("GetUnreadMessagesFromServer")
    /\ out # <<>>
    /\ \E id \in DOMAIN database.messages : id[2] = node_id
    /\ database.messages_read \ ReturnedIds(out) # {}

\* C20: codec round trip: message_to_packets(M, route) yields at least one
\* packet, every packet is a fragment carrying the route and M's session id,
\* in index order, and packets_to_message of those packets returns M.
C20_CodecRoundTrip ==
    (pc \in {"fragmented", "handled"} /\ ev.type = "message_to_packets") =>
        /\ Len(codec_in) >= 1
        /\ \A i \in DOMAIN codec_in :
             /\ IsFragment(codec_in[i])
             /\ codec_in[i].routing_header = SourceRoutingHeader(ev.arg.hops, 1)
             /\ codec_in[i].session_id = ev.arg.message.session_id
             /\ codec_in[i].body.fragment_index = i - 1
             /\ codec_in[i].body.total_n_fragments = Len(codec_in)
        /\ pc = "handled" => out = <<[ok |-> TRUE, message |-> ev.arg.message]>>

\* C20 witness: a message of three fragments came back from its packets.
C20_Witness ==
    /\ pc = "handled"
    /\ ev.type = "message_to_packets"
    /\ Len(codec_in) = 3
    /\ out = <<[ok |-> TRUE, message |-> ev.arg.message]>>

(***************************************************************************)
(* C21: the service is constructed iff the neighbour set has one or two    *)
(* entries and lacks the local id; a set holding the local id is rejected  *)
(* with the own-id error whatever its size; a set of no or more than two   *)
(* entries without the local id is rejected with the error echoing the     *)
(* exact count.                                                            *)
(***************************************************************************)
C21_ValidateOptions ==
    ev.type = "new" =>
        LET offered == ev.arg
            n == Cardinality(offered)
        IN  /\ pc \in {"select", "rejected"}
            /\ pc = "select" <=> (n \in {1, 2} /\ node_id \notin offered)
            /\ pc = "select" => outbound_packet_channels = offered /\ res = "ok"
            /\ node_id \in offered =>
                   /\ res = "err"
                   /\ out = << <<"Own ID is used as a recipient.">> >>
            /\ (node_id \notin offered /\ n \notin {1, 2}) =>
                   /\ res = "err"
                   /\ Len(out) = 1 /\ Len(out[1]) = 2
                   /\ out[1][1] # "Own ID is used as a recipient."
                   /\ out[1][2] = n

\* A rejected set that holds the local id and has more than two entries.
C21_Witness ==
    /\ ev.type = "new"
    /\ pc = "rejected"
    /\ node_id \in ev.arg
    /\ Cardinality(ev.arg) > 2

(***************************************************************************)
(* C22: identifiers come from one strictly increasing counter and are      *)
(* never reused: the id carried by a new SendMessage session, by a flood   *)
(* response the engine generates and by a flood broadcast is newly drawn,  *)
(* greater than the counter before the event and not above the counter     *)
(* after it, so no two of them are equal.                                  *)
(***************************************************************************)
C22_IdsAreNewlyDrawn ==
    [][\A i \in DOMAIN out' :
          (/\ out'[i].ch = "neighbor"
           /\ \/ out'[i].packet.pack_type \in {"FloodRequest", "FloodResponse"}
              \/ ev'.type = "SendMessage")
          => /\ out'[i].packet.session_id > session_id
             /\ out'[i].packet.session_id <= session_id'
             /\ out'[i].packet.pack_type = "FloodRequest"
                   => out'[i].packet.body.flood_id = out'[i].packet.session_id]_vars

\* Output `o` is a packet sent to a neighbour.
IsNeighborSend(o) == o.ch = "neighbor"

\* The outputs hold exactly one neighbour send: the flood response to
\* `request`, sent to the node preceding the local node in its trace.
AnswersFlood(request) ==
    LET prev == request.path_trace[Len(request.path_trace)][1]
        sends == SelectSeq(out, IsNeighborSend)
    IN  /\ Len(sends) = 1
        /\ sends[1].to = prev
        /\ sends[1].packet.pack_type = "FloodResponse"
        /\ sends[1].packet.body.path_trace = Append(request.path_trace, V(node_id, "Client"))
        /\ sends[1].packet.body.flood_id = request.flood_id
        /\ LET header == sends[1].packet.routing_header
           IN  /\ header.hop_index + 1 \in DOMAIN header.hops
               /\ header.hops[header.hop_index + 1] = prev

(***************************************************************************)
(* C23 as stated: on every inbound flood request with a non-empty path     *)
(* trace the engine sends exactly one flood response, whose trace is the   *)
(* request's followed by (local node, Client), whose flood id is the       *)
(* request's and whose cursor designates the node preceding the local node *)
(* in the trace; the response is sent to that node.                        *)
(***************************************************************************)
C23_FloodRequestAlwaysAnswered ==
    (Handled("FloodRequest") /\ ev.arg.path_trace # <<>>) => AnswersFlood(ev.arg)

(***************************************************************************)
(* C23 amended: on an inbound flood request with a non-empty path trace    *)
(* whose last node is a current neighbour the engine sends exactly that    *)
(* one flood response to that node; when the last node is not a current    *)
(* neighbour it sends nothing and the handler's error is logged.           *)
(***************************************************************************)
C23_FloodRequestAnsweredToNeighbor ==
    (Handled("FloodRequest") /\ ev.arg.path_trace # <<>>) =>
        IF ev.arg.path_trace[Len(ev.arg.path_trace)][1] \in outbound_packet_channels
        THEN AnswersFlood(ev.arg) /\ res = "ok"
        ELSE out = <<>> /\ res = "err"

\* A request with a two-node trace was answered.
C23_Witness ==
    /\ Handled("FloodRequest")
    /\ Len(ev.arg.path_trace) = 2
    /\ out # <<>>
    /\ res = "ok"

\* The outputs `o` are one flood request per member of `targets`, each sent
\* to its neighbour and directly followed by its PacketSent.
FloodsExactly(o, targets) ==
    /\ Len(o) = 2 * Cardinality(targets)
    /\ \A i \in 1..Cardinality(targets) :
         /\ o[2 * i - 1].ch = "neighbor"
         /\ o[2 * i - 1].packet.pack_type = "FloodRequest"
         /\ o[2 * i] = PacketSent(o[2 * i - 1].packet)
    /\ {o[2 * i - 1].to : i \in 1..Cardinality(targets)} = targets

(***************************************************************************)
(* C24: on AddNeighbor or RemoveNeighbor the neighbour set is updated      *)
(* first and the re-flood goes to exactly the updated set: an added        *)
(* neighbour gets the flood request, a removed one does not.               *)
(***************************************************************************)
C24_RefloodGoesToUpdatedSet ==
    [][(pc = "select" /\ ev'.type = "ScCommand"
           /\ ev'.arg.type \in {"RemoveSender", "AddSender"})
       => LET updated == IF ev'.arg.type = "RemoveSender"
                         THEN outbound_packet_channels \ {ev'.arg.node}
                         ELSE outbound_packet_channels \cup {ev'.arg.node}
          IN  /\ outbound_packet_channels' = updated
              /\ FloodsExactly(out', updated)]_vars

\* A neighbour was added to two others and the flood reached all three.
C24_Witness ==
    /\ Handled("ScCommand")
    /\ ev.arg.type = "AddSender"
    /\ Cardinality(outbound_packet_channels) = 3
    /\ Len(out) = 6

(***************************************************************************)
(* C25: InitializeFlood sends one flood request to every current           *)
(* neighbour, each with an empty route, the local node as initiator and    *)
(* the path trace (local node, Client) alone, and reports one PacketSent   *)
(* per send directly after it.                                             *)
(***************************************************************************)
C25_InitializeFloodBroadcasts ==
    Handled("InitializeFlood") =>
        /\ FloodsExactly(out, outbound_packet_channels)
        /\ \A i \in DOMAIN out :
             out[i].ch = "neighbor" =>
                /\ out[i].packet.routing_header.hops = <<>>
                /\ out[i].packet.body.initiator_id = node_id
                /\ out[i].packet.body.path_trace = <<V(node_id, "Client")>>

\* A flood was broadcast to two neighbours.
C25_Witness ==
    /\ Handled("InitializeFlood")
    /\ Cardinality(outbound_packet_channels) = 2
    /\ Len(out) = 4

(***************************************************************************)
(* C26: for every fragment group the received count never exceeds the      *)
(* total expected count, whatever sequence of save_fragment calls filled   *)
(* it, repeated saves of one fragment index included.                      *)
(***************************************************************************)
C26_ReceivedNeverExceedsTotal ==
    \A key \in DOMAIN database.packets :
        database.packets[key].received_amount_of_frags
            <= database.packets[key].total_amount_of_frags

(***************************************************************************)
(* C27: mark_sent_to_observer for a packet id fails and leaves the         *)
(* packets-reported set unchanged whenever the fragment it names (session, *)
(* sender, index) is not stored, also when other fragments of the session  *)
(* are; for a message id it fails whenever that message is not stored.     *)
(***************************************************************************)
C27_MarkSentNeedsStoredItem ==
    [][/\ (/\ pc = "select"
           /\ ev'.type = "update_packet_sent_to_simulation_controller"
           /\ ~has_packet(database, ev'.arg))
          => /\ res' = "err"
             /\ database'.packets_sent_to_sc = database.packets_sent_to_sc
       /\ (/\ pc = "select"
           /\ ev'.type = "update_message_sent_to_simulation_controller"
           /\ ~has_message(database, ev'.arg))
          => /\ res' = "err"
             /\ database'.messages_sent_to_sc = database.messages_sent_to_sc]_vars

(***************************************************************************)
(* C28: mark_ack_received fails and leaves the store unchanged when the    *)
(* fragment named was never stored, so every member of the ack-received    *)
(* set is the id of a stored fragment; an inbound Ack or Nack naming a     *)
(* fragment never stored is logged as an error and causes no send and no   *)
(* observer event.                                                         *)
(***************************************************************************)
C28_AckNeedsStoredFragment ==
    [][/\ (/\ pc = "select"
           /\ ev'.type = "update_packet_ack_received"
           /\ ~has_packet(database, ev'.arg))
          => res' = "err" /\ database' = database
       /\ (/\ pc = "select"
           /\ ev'.type \in {"Ack", "Nack"}
           /\ ~has_packet(database, NamedPacket(ev'.arg)))
          => res' = "err" /\ out' = <<>> /\ database' = database
       /\ \A id \in database'.packets_received_ack : has_packet(database', id)]_vars

\* The ack mark was refused for a fragment missing from a stored session.
C28_Witness ==
    /\ Handled("update_packet_ack_received")
    /\ has_session(database, ev.arg[1], ev.arg[2])
    /\ ~has_packet(database, ev.arg)
    /\ res = "err"
    /\ database.packets_received_ack # {}

(***************************************************************************)
(* C29: save_fragment called with a packet that is not a fragment (an ack, *)
(* a nack, a flood request, a flood response) returns an error and leaves  *)
(* every map and set of the store unchanged.                               *)
(***************************************************************************)
C29_SaveRejectsNonFragments ==
    [][(pc = "select" /\ ev'.type = "save_packet" /\ ~IsFragment(ev'.arg))
       => res' = "err" /\ database' = database]_vars

\* A flood request was refused by a store that holds fragments.
C29_Witness ==
    /\ Handled("save_packet")
    /\ ev.arg.pack_type = "FloodRequest"
    /\ res = "err"
    /\ database.packets # EmptyMap

(***************************************************************************)
(* C30: the four membership sets (packets reported to the observer,        *)
(* messages reported to the observer, messages read, fragments             *)
(* acknowledged) only grow: no engine event and no store operation removes *)
(* an element from any of them.                                            *)
(***************************************************************************)
C30_MembershipSetsOnlyGrow ==
    [][/\ database.packets_sent_to_sc \subseteq database'.packets_sent_to_sc
       /\ database.messages_sent_to_sc \subseteq database'.messages_sent_to_sc
       /\ database.messages_read \subseteq database'.messages_read
       /\ database.packets_received_ack \subseteq database'.packets_received_ack]_vars

\* All four sets hold an element, two packets are reported, and an event was
\* handled on top of them.
C30_Witness ==
    /\ pc = "handled"
    /\ Cardinality(database.packets_sent_to_sc) = 2
    /\ database.messages_sent_to_sc # {}
    /\ database.messages_read # {}
    /\ database.packets_received_ack # {}

(***************************************************************************)
(* C31: GetEdgeNodes sends no response when the graph has no non-relay     *)
(* vertex; GetUnreadMessages sends no response when no unread message of   *)
(* another sender is stored; GetClientsFromServer and every supervisor     *)
(* command other than AddNeighbor/RemoveNeighbor produce no output and     *)
(* leave store, graph, neighbour set and session counter unchanged.        *)
(***************************************************************************)
C31_SilentCommands ==
    [][pc = "select" =>
        /\ (/\ ev'.type = "GetEdgeNodesFromFlood"
            /\ \A v \in Range(graph.nodes) : v[2] = "Drone")
           => out' = <<>> /\ res' = "ok"
        /\ (/\ ev'.type = "GetUnreadMessagesFromServer"
            /\ \A id \in DOMAIN database.messages :
                  id \in database.messages_read \/ id[2] = node_id)
           => out' = <<>> /\ res' = "ok"
        /\ (\/ ev'.type = "GetClientsFromServer"
            \/ (ev'.type = "ScCommand"
                  /\ ev'.arg.type \notin {"RemoveSender", "AddSender"}))
           => /\ out' = <<>> /\ res' = "ok"
              /\ UNCHANGED <<database, graph, outbound_packet_channels, session_id>>]_vars

\* GetEdgeNodes stayed silent on a graph that holds relays only.
C31_Witness ==
    /\ Handled("GetEdgeNodesFromFlood")
    /\ graph.nodes # <<>>
    /\ \A v \in Range(graph.nodes) : v[2] = "Drone"
    /\ out = <<>>

\* The channel output `o` is sent on.
ChannelOf(o) == IF o.ch = "neighbor" THEN o.to ELSE sc_channel

\* A send on channel `c` fails.
SendFails(c) ==
    \/ c \in closed_channels
    \/ c # sc_channel /\ c \notin outbound_packet_channels

\* The sends a flood over `order` consists of when none fails.
IntendedFlood(order) ==
    LET packet == get_new_flood_request_packet(session_id, node_id)
    IN  [i \in 1..(2 * Len(order)) |->
            IF i % 2 = 1 THEN ToNeighbor(order[(i + 1) \div 2], packet)
            ELSE PacketSent(packet)]

\* The sends SendMessage of `m` on route `hops` consists of when none fails.
IntendedSend(m, hops) ==
    LET packets == message_to_packets(m, SourceRoutingHeader(hops, 1))
    IN  <<MessageEvent("StartingMessageTransmission", m)>>
            \o [i \in 1..(2 * Len(packets)) |->
                   IF i % 2 = 1 THEN ToNeighbor(hops[2], packets[(i + 1) \div 2])
                   ELSE PacketSent(packets[i \div 2])]

\* The outputs are the intended sends up to the first one that fails; the
\* handler reports an error exactly when one failed.
AbandonedAtFirstFailure(intended) ==
    /\ Len(out) <= Len(intended)
    /\ \A i \in DOMAIN out : out[i] = intended[i] /\ ~SendFails(ChannelOf(out[i]))
    /\ Len(out) = Len(intended) => res = "ok"
    /\ Len(out) < Len(intended) =>
          res = "err" /\ SendFails(ChannelOf(intended[Len(out) + 1]))

(***************************************************************************)
(* C32: when a send to a neighbour channel or to the observer channel      *)
(* fails while an event is processed, the rest of that event's sends is    *)
(* abandoned: a flood broadcast and a SendMessage emit their sends in      *)
(* order up to the first one that fails and nothing after it (no flood     *)
(* request to a later neighbour, no later fragment), the handler's error   *)
(* is logged and the engine goes on to the next event.                     *)
(***************************************************************************)
C32_FailedSendAbandonsTheRest ==
    /\ ev.type = "InitializeFlood" =>
          pc = "handled" /\ AbandonedAtFirstFailure(IntendedFlood(ev.arg))
    /\ (ev.type = "SendMessage" /\ get_route_to_node(graph, ev.arg.destination) # {}) =>
          /\ pc = "handled"
          /\ \E hops \in get_route_to_node(graph, ev.arg.destination) :
                AbandonedAtFirstFailure(
                    IntendedSend([ev.arg EXCEPT !.session_id = session_id], hops))

\* A flood met a closed channel at its first neighbour and left out the
\* second, whose channel is open.
C32_Witness ==
    /\ Handled("InitializeFlood")
    /\ Len(ev.arg) = 2
    /\ ev.arg[1] \in closed_channels
    /\ ev.arg[2] \notin closed_channels
    /\ sc_channel \notin closed_channels
    /\ out = <<>>
    /\ res = "err"

\* Output `o` is fragment `index` of session `session` sent to a neighbour.
IsFragmentSend(o, session, index) ==
    /\ o.ch = "neighbor"
    /\ IsFragment(o.packet)
    /\ o.packet.session_id = session
    /\ o.packet.body.fragment_index = index

\* A route of the graph to `destination` leaves through a current neighbour.
RouteThroughNeighborExists(destination) ==
    \E route \in get_route_to_node(graph, destination) :
        Len(route) >= 2 /\ route[2] \in outbound_packet_channels

(***************************************************************************)
(* C33: NACK-driven retransmission has no bound: every Nack with reason    *)
(* Dropped, ErrorInRouting or UnexpectedRecipient for a stored fragment,   *)
(* arriving while a route to the fragment's destination through a current  *)
(* neighbour exists, makes the engine resend that fragment once, however   *)
(* many Nacks and resends came before; n Nacks give n resends.             *)
(***************************************************************************)
C33_EveryNackResendsOnce ==
    (/\ Handled("Nack")
     /\ ev.arg.body.nack_type \in {"Dropped", "ErrorInRouting", "UnexpectedRecipient"}
     /\ has_packet(database, NamedPacket(ev.arg))
     /\ get_packet(database, NamedPacket(ev.arg)).routing_header.hops # <<>>
     /\ LET old == get_packet(database, NamedPacket(ev.arg)).routing_header.hops
        IN  RouteThroughNeighborExists(old[Len(old)]))
    => Cardinality({i \in DOMAIN out :
                      IsFragmentSend(out[i], ev.arg.session_id,
                                     ev.arg.body.fragment_index)}) = 1

(***************************************************************************)
(* C34: every fragment SendMessage stores is stored under (allocated       *)
(* session id, local node id, fragment index), so an inbound Ack with that *)
(* session id and fragment index is accepted, and once every such Ack has  *)
(* arrived the stored message is found and reported, whatever source field *)
(* the caller put in the message.                                          *)
(***************************************************************************)
C34_AckedMessageIsFound ==
    /\ (Handled("SendMessage") /\ res = "ok") =>
          \A i \in DOMAIN out :
             (out[i].ch = "neighbor" /\ IsFragment(out[i].packet)) =>
                /\ has_packet(database, PacketID(session_id, node_id,
                                                 out[i].packet.body.fragment_index))
    /\ (Handled("Ack") /\ has_packet(database, NamedPacket(ev.arg))) =>
          /\ NamedPacket(ev.arg) \in database.packets_received_ack
          /\ all_packets_successfully_sent(database, ev.arg.session_id, node_id) = Some(TRUE)
                => /\ res = "ok"
                   /\ \E m \in Range(database.messages) :
                         /\ m.session_id = ev.arg.session_id
                         /\ out = <<MessageEvent("MessageSentSuccessfully", m)>>

(***************************************************************************)
(* C35: every route the engine puts on a fragment, in SendMessage or on a  *)
(* NACK-driven resend, has the local node as hop 0 and a node of the       *)
(* current neighbour set as hop 1, also after RemoveNeighbor removed a     *)
(* neighbour through which routes were learned.                            *)
(***************************************************************************)
C35_RoutesLeaveThroughNeighbors ==
    /\ Handled("SendMessage") =>
          \A f \in FragmentIds :
             has_packet(database, PacketID(session_id, node_id, f)) =>
                LET hops == get_packet(database,
                                       PacketID(session_id, node_id, f)).routing_header.hops
                IN  /\ Len(hops) >= 2
                    /\ hops[1] = node_id
                    /\ hops[2] \in outbound_packet_channels
    /\ Handled("Nack") =>
          \A i \in DOMAIN out :
             (out[i].ch = "neighbor" /\ IsFragment(out[i].packet)) =>
                /\ out[i].packet.routing_header.hops[1] = node_id
                /\ out[i].packet.routing_header.hops[2] \in outbound_packet_channels

(***************************************************************************)
(* C36: for every message sent via SendMessage, MessageSentSuccessfully is *)
(* emitted at most once, whatever Acks arrive: an Ack arriving when every  *)
(* fragment of the session is already acknowledged (the report was made    *)
(* when the last of them was) emits nothing.                               *)
(***************************************************************************)
C36_SentSuccessfullyAtMostOnce ==
    [][(/\ pc = "select"
        /\ ev'.type = "Ack"
        /\ has_message(database, MessageID(ev'.arg.session_id, node_id))
        /\ all_packets_successfully_sent(database, ev'.arg.session_id, node_id)
              = Some(TRUE))
       => \A i \in DOMAIN out' : out'[i].event # "MessageSentSuccessfully"]_vars

\* The deliveries counted so far for the (session, sender) of fragment `p`.
CountedDeliveries(db, p) ==
    IF has_session(db, p.session_id, p.routing_header.hops[1])
    THEN get_amount_of_fragments_received(db, p.session_id, p.routing_header.hops[1])
    ELSE 0

(***************************************************************************)
(* C37: for a (session, sender) whose fragments all declare the same total *)
(* count, MessageReceived is emitted at most once, whatever the sequence   *)
(* of deliveries, duplicates and deliveries after completion included:     *)
(* every delivery is counted once, and the event is emitted only by the    *)
(* delivery whose number is the total.                                     *)
(***************************************************************************)
C37_ReceivedAtMostOnce ==
    [][(pc = "select" /\ ev'.type = "Fragment" /\ res' # "panic") =>
          /\ CountedDeliveries(database', ev'.arg) = CountedDeliveries(database, ev'.arg) + 1
          /\ (\E i \in DOMAIN out' : out'[i].event = "MessageReceived") =>
                /\ Len(out') = 1
                /\ CountedDeliveries(database', ev'.arg) = ev'.arg.body.total_n_fragments]_vars

\* A fragment was delivered after its message had been received: it is
\* counted beyond the total and nothing is emitted.
C37_Witness ==
    /\ Handled("Fragment")
    /\ res = "ok"
    /\ has_message(database, MessageID(ev.arg.session_id, ev.arg.routing_header.hops[1]))
    /\ CountedDeliveries(database, ev.arg) > ev.arg.body.total_n_fragments
    /\ out = <<>>

(***************************************************************************)
(* C38: a message the application submitted through SendMessage is never   *)
(* handed back by a later GetUnreadMessages, whatever source field the     *)
(* caller put in it.  Submitted messages are the stored ones addressed to  *)
(* another node.                                                           *)
(***************************************************************************)
C38_SubmittedNeverReadBack ==
    Handled("GetUnreadMessagesFromServer") =>
        \A i \in DOMAIN out :
            out[i].ch = "unread" =>
                \A j \in DOMAIN out[i].messages :
                    out[i].messages[j].destination = node_id

(***************************************************************************)
(* C39: no route computed from the local node passes through a Client or a *)
(* Server as an intermediate hop, in every graph built by feeding          *)
(* flood-response traces to add_route.                                     *)
(***************************************************************************)
C39_RoutesCrossOnlyDrones ==
    \A to \in Range(graph.nodes) :
        \A path \in all_simple_paths(graph, <<V(node_id, "Client")>>, to,
                                     Len(graph.nodes) - 1) :
            \A i \in 2..(Len(path) - 1) : path[i][2] = "Drone"

(***************************************************************************)
(* C40: in every state of the running engine the neighbour set has one or  *)
(* two entries and does not hold the local node id, whatever AddNeighbor   *)
(* and RemoveNeighbor commands follow a valid construction.                *)
(***************************************************************************)
C40_NeighborSetStaysValid ==
    pc \in {"select", "handled"} =>
        /\ Cardinality(outbound_packet_channels) \in {1, 2}
        /\ node_id \notin outbound_packet_channels

====
